---- MODULE Spec2Model ----
(***************************************************************************)
(* WebGL pixel mirror (p5-webgl-pixel-mirror/sketch.js).                   *)
(*                                                                         *)
(* The sketch has two global configuration values, gridSize and            *)
(* diskRadius, changed by keyPressed(), and a per-frame routine draw()     *)
(* that walks a grid of cols x rows cells, samples one pixel of the        *)
(* downscaled capture buffer per cell and issues one cylinder() call per   *)
(* cell.  JavaScript runs each callback to completion, so draw() is        *)
(* modelled as DrawBegin (lines 23-46), one DrawRow step per iteration of  *)
(* the outer loop (lines 49-100, the inner loop run whole) and DrawEnd     *)
(* (the outer loop's exit); keyPressed is enabled only between frames.     *)
(*                                                                         *)
(* Numbers: JavaScript's "/" is real division.  Divisions whose result is  *)
(* not floored are kept as exact fractions <<numerator, denominator>>.     *)
(* floor(a / b) of non-negative integers is a \div b.  For every grid the  *)
(* key handler can reach, the double-precision value of                    *)
(* floor((x / cols) * capture.width) equals the exact one.                 *)
(* rotationX is kept in units of PI (its coefficient), PI being            *)
(* irrational: map(b, 0, 255, 0, PI) = PI * map(b, 0, 255, 0, 1).          *)
(***************************************************************************)
EXTENDS Integers, Sequences, FiniteSets, TLC

VARIABLES gridSize, diskRadius, pc, pixels, cols, rows, y, row, calls

vars == <<gridSize, diskRadius, pc, pixels, cols, rows, y, row, calls>>

(***************************************************************************)
(* Program constants.                                                      *)
(***************************************************************************)
scaleValueTwenty == 20
scaleValue == 10
width == 1280
height == 720
captureWidth == 1920 \div scaleValue
captureHeight == 1080 \div scaleValue

(***************************************************************************)
(* Bound of the model: how many different capture-buffer contents a frame  *)
(* may load.                                                               *)
(***************************************************************************)
NumPatterns == 2

(***************************************************************************)
(* Key events delivered to keyPressed(): the four keys it reacts to, the   *)
(* space bar (an empty branch) and one key it ignores.                     *)
(***************************************************************************)
Keys == {"ArrowUp", "ArrowDown", "[", "]", " ", "a"}

(***************************************************************************)
(* capture.pixels: four channel values per pixel, row-major.  The content  *)
(* is the camera's.  Pattern p mixes four kinds of pixel, by pixel index   *)
(* q: a gradient ((10,20,30) at q = 0), black, white and (0,0,1).          *)
(* A read past the end of the array is undefined.                          *)
(***************************************************************************)
Undefined == -1
PixelsLength == captureWidth * captureHeight * 4

PixelValue(p, i) ==
    LET q == i \div 4
        c == i % 4
        kind == (q + p) % 4
    IN  CASE kind = 0 -> ((c + 1) * 10 + q) % 256
          [] kind = 1 -> 0
          [] kind = 2 -> 255
          [] OTHER -> c \div 2

PixelsAt(i) ==
    IF 0 <= i /\ i < PixelsLength THEN PixelValue(pixels, i) ELSE Undefined

(***************************************************************************)
(* Exact fractions.                                                        *)
(***************************************************************************)
NaN == <<0, 0>>
RatLe(a, b) == a[1] * b[2] <= b[1] * a[2]
RatEq(a, b) == a[1] * b[2] = b[1] * a[2]
RatIsInt(a, n) == a[2] > 0 /\ a[1] = n * a[2]

(***************************************************************************)
(* p5's map(n, start1, stop1, start2, stop2): the linear rescale           *)
(* (n - start1) / (stop1 - start1) * (stop2 - start2) + start2.            *)
(***************************************************************************)
map(n, start1, stop1, start2, stop2) ==
    IF n = NaN THEN NaN
    ELSE << (n[1] - start1 * n[2]) * (stop2 - start2)
                + start2 * n[2] * (stop1 - start1),
            n[2] * (stop1 - start1) >>

(***************************************************************************)
(* draw(), lines 52-75: the values computed for one cell.                  *)
(***************************************************************************)
captureXOneBased(x) == ((x + 1) * captureWidth) \div cols
captureX(x) == (x * captureWidth) \div cols
captureY(j) == (j * captureHeight) \div rows

offsetSwapped(cx, cy, w) == (cx * w + cy) * 4
offset(cx, cy, w) == (cy * w + cx) * 4

brightnessTruncated(r, g, b) ==
    IF Undefined \in {r, g, b} THEN NaN ELSE <<(r + g + b) \div 3, 1>>
brightness(r, g, b) ==
    IF Undefined \in {r, g, b} THEN NaN ELSE <<r + g + b, 3>>

rotationX(bright) == map(bright, 0, 255, 0, 1)

zDepthFromZero(bright) == map(bright, 0, 255, 0, 100)
zDepth(bright) == map(bright, 0, 255, -100, 100)

xPosHalved(x) == <<x * gridSize + gridSize, 2>>
xPos(x) == <<2 * x * gridSize + gridSize, 2>>
yPos(j) == <<2 * j * gridSize + gridSize, 2>>

(***************************************************************************)
(* One iteration of the inner loop's body (lines 51-98): the cylinder call *)
(* it issues, with everything the call depends on.                         *)
(***************************************************************************)
Disk(x) ==
    LET cx == captureX(x)
        cy == captureY(y)
        off == offset(cx, cy, captureWidth)
        r == PixelsAt(off)
        g == PixelsAt(off + 1)
        b == PixelsAt(off + 2)
        bright == brightness(r, g, b)
    IN  [x |-> x, y |-> y, captureX |-> cx, captureY |-> cy, offset |-> off,
         r |-> r, g |-> g, b |-> b, brightness |-> bright,
         rotationX |-> rotationX(bright), zDepth |-> zDepth(bright),
         xPos |-> xPos(x), yPos |-> yPos(y),
         radius |-> diskRadius, height |-> 2]

(***************************************************************************)
(* The inner loop, for (let x = 0; x < cols; x++): the cylinder calls of   *)
(* one grid row, in the order issued.                                      *)
(***************************************************************************)
InnerLoopFromOne == [i \in 1 .. (cols - 1) |-> Disk(i)]
InnerLoop == [i \in 1 .. cols |-> Disk(i - 1)]

Init ==
    /\ gridSize = 20
    /\ diskRadius = 15
    /\ pc = "idle"
    /\ pixels = 0
    /\ cols = 0
    /\ rows = 0
    /\ y = 0
    /\ row = <<>>
    /\ calls = 0

(***************************************************************************)
(* keyPressed(), lines 104-123.                                            *)
(***************************************************************************)
Max(a, b) == IF a >= b THEN a ELSE b
Min(a, b) == IF a <= b THEN a ELSE b

GridSizeAfterLowClamp(k) ==
    IF k = "ArrowUp" THEN Max(2, gridSize - 2)
    ELSE IF k = "ArrowDown" THEN Min(40, gridSize + 2)
    ELSE gridSize

GridSizeAfter(k) ==
    IF k = "ArrowUp" THEN Max(10, gridSize - 2)
    ELSE IF k = "ArrowDown" THEN Min(40, gridSize + 2)
    ELSE gridSize

DiskRadiusAfterUnclamped(k) ==
    IF k = "[" THEN diskRadius - 2
    ELSE IF k = "]" THEN Min(30, diskRadius + 2)
    ELSE diskRadius

DiskRadiusAfter(k) ==
    IF k = "[" THEN Max(5, diskRadius - 2)
    ELSE IF k = "]" THEN Min(30, diskRadius + 2)
    ELSE diskRadius

keyPressed(k) ==
    /\ pc = "idle"
    /\ gridSize' = GridSizeAfter(k)
    /\ diskRadius' = DiskRadiusAfter(k)
    /\ UNCHANGED <<pc, pixels, cols, rows, y, row, calls>>

(***************************************************************************)
(* draw(), lines 23-46: clear the canvas, load the capture's pixels,       *)
(* compute the grid dimensions and enter the outer loop at y = 0.          *)
(***************************************************************************)
DrawBeginStaleGrid(p) ==
    /\ pc = "idle"
    /\ pc' = "draw"
    /\ pixels' = p
    /\ calls' = 0
    /\ cols' = width \div 20
    /\ rows' = height \div 20
    /\ y' = 0
    /\ row' = <<>>
    /\ UNCHANGED <<gridSize, diskRadius>>

DrawBegin(p) ==
    /\ pc = "idle"
    /\ pc' = "draw"
    /\ pixels' = p
    /\ calls' = 0
    /\ cols' = width \div gridSize
    /\ rows' = height \div gridSize
    /\ y' = 0
    /\ row' = <<>>
    /\ UNCHANGED <<gridSize, diskRadius>>

(***************************************************************************)
(* draw(), lines 49-100: one iteration of the outer loop.                  *)
(***************************************************************************)
DrawRow ==
    /\ pc = "draw"
    /\ y < rows
    /\ row' = InnerLoop
    /\ calls' = calls + Len(row')
    /\ y' = y + 1
    /\ UNCHANGED <<gridSize, diskRadius, pc, pixels, cols, rows>>

(***************************************************************************)
(* draw(), line 49 with y = rows: the loop ends and draw() returns; its    *)
(* locals are gone, the canvas keeps what was drawn.                       *)
(***************************************************************************)
DrawEnd ==
    /\ pc = "draw"
    /\ ~(y < rows)
    /\ pc' = "idle"
    /\ cols' = 0
    /\ rows' = 0
    /\ y' = 0
    /\ row' = <<>>
    /\ UNCHANGED <<gridSize, diskRadius, pixels, calls>>

Next ==
    \/ \E k \in Keys : keyPressed(k)
    \/ \E p \in 0 .. (NumPatterns - 1) : DrawBegin(p)
    \/ DrawRow
    \/ DrawEnd

Spec == Init /\ [][Next]_vars

(***************************************************************************)
(* Properties.                                                             *)
(***************************************************************************)
InFrame == pc = "draw"
Disks == {row[i] : i \in 1 .. Len(row)}
Cells == 1 .. Len(row)
Sum(d) == d.r + d.g + d.b
IsFloorOf(q, a, b) == q * b <= a /\ a < (q + 1) * b

\* C1: every cell (x,y) samples the pixel at column floor((x/cols)*width),
\* row floor((y/rows)*height) of the capture, at offset
\* (captureY*width + captureX)*4, and reads r, g, b from offset, offset+1,
\* offset+2; the offset decodes back to that row and column; width 10,
\* column 3, row 2 gives offset 92.
C1_OffsetFormula ==
    /\ offset(3, 2, 10) = 92
    /\ InFrame =>
         \A c \in Cells : LET d == row[c] IN
            /\ IsFloorOf(d.captureX, d.x * captureWidth, cols)
            /\ IsFloorOf(d.captureY, d.y * captureHeight, rows)
            /\ d.offset = 4 * captureWidth * d.captureY + 4 * d.captureX
            /\ (d.offset \div 4) % captureWidth = d.captureX
            /\ (d.offset \div 4) \div captureWidth = d.captureY
            /\ d.r = PixelValue(pixels, d.offset)
            /\ d.g = PixelValue(pixels, d.offset + 1)
            /\ d.b = PixelValue(pixels, d.offset + 2)

C1_Witness ==
    /\ InFrame
    /\ \E d \in Disks : d.x > 0 /\ d.y > 0 /\ d.captureX > 0 /\ d.captureY > 0

\* C2: in every frame, for every reachable gridSize and every cell, the
\* sampled column and row lie inside the capture, the offset is at most
\* (width*height - 1)*4 and no channel read is past the end of the buffer.
C2_ReadsInBounds ==
    InFrame =>
      \A c \in Cells : LET d == row[c] IN
         /\ 0 <= d.captureX /\ d.captureX < captureWidth
         /\ 0 <= d.captureY /\ d.captureY < captureHeight
         /\ 0 <= d.offset
         /\ d.offset <= (captureWidth * captureHeight - 1) * 4
         /\ d.offset + 2 < PixelsLength
         /\ Undefined \notin {d.r, d.g, d.b}
         /\ d.brightness # NaN

C2_Witness ==
    /\ InFrame
    /\ gridSize = 10
    /\ \E d \in Disks : d.x = cols - 1 /\ d.y = rows - 1 /\ d.offset > 80000

\* C3: gridSize stays in [10,40] and diskRadius in [5,30]; a key press
\* changes gridSize only to max(10, gridSize-2) or min(40, gridSize+2) and
\* diskRadius only to max(5, diskRadius-2) or min(30, diskRadius+2), so a
\* press at a bound leaves the value at that bound.
C3_ConfigClamped ==
    [][ /\ gridSize \in 10 .. 40 /\ gridSize' \in 10 .. 40
        /\ diskRadius \in 5 .. 30 /\ diskRadius' \in 5 .. 30
        /\ gridSize' \in {gridSize,
                          IF gridSize - 2 < 10 THEN 10 ELSE gridSize - 2,
                          IF gridSize + 2 > 40 THEN 40 ELSE gridSize + 2}
        /\ diskRadius' \in {diskRadius,
                            IF diskRadius - 2 < 5 THEN 5 ELSE diskRadius - 2,
                            IF diskRadius + 2 > 30 THEN 30 ELSE diskRadius + 2}
        /\ (gridSize' # gridSize => diskRadius' = diskRadius)
      ]_vars

C3_Witness == gridSize = 10 /\ diskRadius = 5 /\ pc = "idle"

\* C4: the grid of a frame is never larger than the capture resolution:
\* cols = floor(1280/gridSize) <= 192 and rows = floor(720/gridSize) <= 108.
C4_GridWithinCapture ==
    InFrame =>
       /\ IsFloorOf(cols, width, gridSize)
       /\ IsFloorOf(rows, height, gridSize)
       /\ cols <= captureWidth
       /\ rows <= captureHeight

C4_Witness == InFrame /\ cols = 128 /\ rows = 72 /\ y = rows

\* C5: in every frame each cell of the grid issues exactly one cylinder
\* call: a finished row holds the cells x = 0 .. cols-1 once each, in order,
\* and after y rows the frame has issued y*cols calls, cols*rows at its end.
C5_OneCallPerCell ==
    InFrame =>
       /\ y <= rows
       /\ calls = y * cols
       /\ (y = rows => calls = cols * rows)
       /\ (y > 0 =>
             /\ Len(row) = cols
             /\ \A i \in 1 .. Len(row) : row[i].x = i - 1 /\ row[i].y = y - 1)

C5_Witness == InFrame /\ y = rows /\ calls = cols * rows /\ calls > 0

\* C6: zDepth and rotationX are the linear maps of brightness onto
\* [-100,100] and [0,PI]: brightness 0 gives -100 and 0, 255 gives 100 and
\* PI, 127.5 gives 0 and PI/2; both are non-decreasing in brightness and
\* stay in range.  (rotationX in units of PI.)
C6_DepthAndRotation ==
    /\ RatIsInt(zDepth(<<0, 1>>), -100) /\ RatIsInt(rotationX(<<0, 1>>), 0)
    /\ RatIsInt(zDepth(<<255, 1>>), 100) /\ RatIsInt(rotationX(<<255, 1>>), 1)
    /\ RatIsInt(zDepth(<<255, 2>>), 0) /\ RatEq(rotationX(<<255, 2>>), <<1, 2>>)
    /\ InFrame =>
         /\ \A c \in Cells : LET d == row[c] IN
              /\ RatEq(d.zDepth, <<200 * Sum(d) - 76500, 765>>)
              /\ RatEq(d.rotationX, <<Sum(d), 765>>)
              /\ RatLe(<<-100, 1>>, d.zDepth) /\ RatLe(d.zDepth, <<100, 1>>)
              /\ RatLe(<<0, 1>>, d.rotationX) /\ RatLe(d.rotationX, <<1, 1>>)
         /\ \A i \in 1 .. (Len(row) - 1) :
              /\ RatLe(row[i].brightness, row[i + 1].brightness)
                   => /\ RatLe(row[i].zDepth, row[i + 1].zDepth)
                      /\ RatLe(row[i].rotationX, row[i + 1].rotationX)
              /\ RatLe(row[i + 1].brightness, row[i].brightness)
                   => /\ RatLe(row[i + 1].zDepth, row[i].zDepth)
                      /\ RatLe(row[i + 1].rotationX, row[i].rotationX)

C6_Witness ==
    /\ InFrame
    /\ \E d \in Disks : Sum(d) = 0 /\ RatIsInt(d.zDepth, -100)
    /\ \E d \in Disks : Sum(d) = 765 /\ RatIsInt(d.zDepth, 100)
    /\ \E d \in Disks : Sum(d) \notin {0, 765}

\* C7: brightness is the unweighted, untruncated average of r, g, b:
\* 3*brightness = r+g+b exactly, (10,20,30) gives 20, (0,0,1) gives 1/3 and
\* not 0, and brightness lies in [0,255].
C7_BrightnessAverage ==
    /\ RatIsInt(brightness(10, 20, 30), 20)
    /\ RatEq(brightness(0, 0, 1), <<1, 3>>)
    /\ InFrame =>
         \A c \in Cells : LET d == row[c] IN
            /\ d.brightness[2] > 0
            /\ 3 * d.brightness[1] = Sum(d) * d.brightness[2]
            /\ RatLe(<<0, 1>>, d.brightness) /\ RatLe(d.brightness, <<255, 1>>)
            /\ (Sum(d) = 1 => ~RatIsInt(d.brightness, 0))

C7_Witness ==
    /\ InFrame
    /\ \E d \in Disks : d.r = 0 /\ d.g = 0 /\ d.b = 1
                        /\ RatEq(d.brightness, <<1, 3>>)
    /\ \E d \in Disks : d.r = 10 /\ d.g = 20 /\ d.b = 30
                        /\ RatIsInt(d.brightness, 20)

\* C8: the cells tile [0,cols*gridSize) x [0,rows*gridSize): cell (x,y) is
\* centred at (x*gridSize + gridSize/2, y*gridSize + gridSize/2), so its
\* square starts at x*gridSize, adjacent cells are exactly gridSize apart
\* (no gap, no overlap), the first starts at 0 and the last ends at
\* cols*gridSize <= canvas width (rows*gridSize <= canvas height).
C8_GridTiles ==
    InFrame =>
       /\ cols * gridSize <= width
       /\ rows * gridSize <= height
       /\ \A c \in Cells : LET d == row[c] IN
             /\ d.xPos[2] > 0 /\ d.yPos[2] > 0
             /\ 2 * d.xPos[1] - gridSize * d.xPos[2]
                    = 2 * d.x * gridSize * d.xPos[2]
             /\ 2 * d.yPos[1] - gridSize * d.yPos[2]
                    = 2 * d.y * gridSize * d.yPos[2]
             /\ 2 * d.xPos[1] + gridSize * d.xPos[2]
                    <= 2 * cols * gridSize * d.xPos[2]
             /\ 2 * d.yPos[1] + gridSize * d.yPos[2]
                    <= 2 * rows * gridSize * d.yPos[2]
       /\ \A i \in 1 .. (Len(row) - 1) :
             /\ row[i + 1].xPos[1] * row[i].xPos[2]
                  - row[i].xPos[1] * row[i + 1].xPos[2]
                    = gridSize * row[i].xPos[2] * row[i + 1].xPos[2]
             /\ RatEq(row[i + 1].yPos, row[i].yPos)
       /\ (Len(row) > 0 =>
             /\ RatEq(row[1].xPos, <<gridSize, 2>>)
             /\ RatEq(row[Len(row)].xPos, <<2 * cols * gridSize - gridSize, 2>>))

C8_Witness ==
    /\ InFrame
    /\ Len(row) = cols
    /\ y = rows
    /\ cols * gridSize < width
    /\ rows * gridSize < height

\* C9: a frame uses one value of gridSize and one of diskRadius: no step of
\* draw() changes them, the frame's cols and rows are those of the current
\* gridSize (so of the latest key press before the frame), and every disk
\* of the frame has the current diskRadius and a position on the current
\* gridSize's grid.
C9_FrameUsesOneConfig ==
    [][ /\ (pc = "draw" \/ pc' = "draw")
            => gridSize' = gridSize /\ diskRadius' = diskRadius
        /\ pc' = "draw"
            => /\ cols' = width \div gridSize'
               /\ rows' = height \div gridSize'
               /\ \A i \in 1 .. Len(row') :
                     /\ row'[i].radius = diskRadius'
                     /\ RatEq(row'[i].xPos,
                              <<(2 * row'[i].x + 1) * gridSize', 2>>)
                     /\ RatEq(row'[i].yPos,
                              <<(2 * row'[i].y + 1) * gridSize', 2>>)
                     /\ row'[i].captureX
                           = (row'[i].x * captureWidth) \div (width \div gridSize')
      ]_vars

C9_Witness ==
    /\ InFrame
    /\ gridSize = 36
    /\ diskRadius = 9
    /\ Len(row) = cols
    /\ \A d \in Disks : d.radius = 9

\* C10: within a frame distinct cells sample distinct pixels: the sampled
\* column strictly increases with x, the sampled row strictly increases
\* with y, so offsets strictly increase in drawing order, and cell (0,0)
\* samples offset 0.
C10_DistinctSamples ==
    InFrame /\ y > 0 =>
       /\ \A i \in 1 .. (Len(row) - 1) :
             /\ row[i].captureX < row[i + 1].captureX
             /\ row[i].offset < row[i + 1].offset
       /\ \A j \in 0 .. (y - 2) : captureY(j) < row[1].captureY
       /\ (y > 1 =>
             offset(captureX(cols - 1), captureY(y - 2), captureWidth)
                < row[1].offset)
       /\ (y = 1 => row[1].offset = 0)

C10_Witness ==
    /\ InFrame
    /\ gridSize = 10
    /\ y > 1
    /\ Len(row) = cols
    /\ row[1].offset > 0

====
